---- MODULE Spec2Model ----
(***************************************************************************)
(* docker-compose-wait: the status parser (convert_status), the container  *)
(* lookup (get_statuses_for_ids), the aggregation with a blacklist         *)
(* (get_services_statuses) and the wait loop of main().                    *)
(*                                                                         *)
(* A Python string is modelled as a sequence of atoms.  An atom is either  *)
(* one of the three characters the regular expression of convert_status    *)
(* tells apart (" ", "(" and ")") or a word: a non-empty run of characters *)
(* that are neither whitespace nor a parenthesis ("Up", "healthy",         *)
(* "health:", ...).  The regular expression never needs to split a word:   *)
(* a shorter first group only hands the rest of the word to the part that  *)
(* follows it, which reaches the same positions.                           *)
(***************************************************************************)
EXTENDS Integers, Sequences, FiniteSets, TLC

VARIABLES
    pc,            \* "start" (before line 105), "loop" (line 118), "done" (process ended)
    wait,          \* args.wait
    timeout,       \* timeparse(args.timeout), NoTimeout when args.timeout is None
    blacklist,     \* the set of names of the list blacklist (line 116)
    compose,       \* environment: service name -> output of `docker-compose ps -q name`
    services_ids,  \* services_ids (line 111)
    start_time,    \* start_time (line 108)
    now,           \* environment: the wall clock, time.time()
    raw_statuses,  \* the dictionary get_statuses_for_ids returned at the last poll
    statuses,      \* statuses (line 119) of the last poll that computed it
    outcome,       \* "None" while running, else "Success", "Failure", "TimedOut", "Aborted"
    report,        \* the (service, state) lines printed by lines 133-134
    lastStep,      \* how the last iteration of the loop ended
    ticks,         \* number of iterations of the while loop so far
    exit_status,   \* the exit status of the process, NotExited while it runs
    track,         \* history: whether prev_statuses is recorded
    prev_statuses, \* history: statuses as it was before the last poll assigned it
    raw,           \* the parser on its own: the argument of convert_status
    parsed,        \* the parser on its own: what convert_status returned for raw
    lk_ids,        \* the lookup on its own: the ids asked for
    lk_list,       \* the lookup on its own: the listing of `docker ps`
    lk_out         \* the lookup on its own: what get_statuses_for_ids returned

vars == <<pc, wait, timeout, blacklist, compose, services_ids, start_time, now,
          raw_statuses, statuses, outcome, report, lastStep, ticks, exit_status,
          track, prev_statuses, raw, parsed, lk_ids, lk_list, lk_out>>

mainVars == <<pc, wait, timeout, blacklist, compose, services_ids, start_time, now,
              raw_statuses, statuses, outcome, report, lastStep, ticks, exit_status,
              track, prev_statuses>>

parserVars == <<raw, parsed>>

lookupVars == <<lk_ids, lk_list, lk_out>>

(***************************************************************************)
(* Bounds.                                                                 *)
(***************************************************************************)
MaxTicks == 2
MaxTimeout == 1
MaxList == 2
MaxRawLen == 3

\* the poll of line 119 runs `docker ps`; it takes this long on the wall clock
CallDurations == {0, 1}

(***************************************************************************)
(* Strings.                                                                *)
(***************************************************************************)
Max(S) == CHOOSE x \in S : \A y \in S : y <= x

\* args.timeout is None (line 96, default=None)
NoTimeout == -1

\* time.sleep(1), line 141
SleepInterval == 1

\* the process has not exited: a value no exit status (0..255) and no argument
\* of exit() takes
NotExited == 256

\* the value "removed" of line 31, as a string of one word
Removed == <<"removed">>

\* what `raise Exception(...)` (lines 39 and 50) is modelled by
Raised == "Exception"

\* re.search found nothing (line 38); None for group 2 (line 47)
NoMatch == [matched |-> FALSE, g1 |-> <<>>, has2 |-> FALSE, g2 |-> <<>>]

(***************************************************************************)
(* re.search of line 37.  The pattern is, anchored at both ends: group 1,  *)
(* one or more characters that are not whitespace; then any number of      *)
(* characters that are not an opening parenthesis; then, optionally, an    *)
(* opening parenthesis, group 2 (any characters), a closing parenthesis    *)
(* and any characters.  A match is given by i, the end of group 1, by j,   *)
(* the end of the run without opening parenthesis (positions i+1..j), and  *)
(* either the optional part left out, and then the end anchor asks for     *)
(* j = Len(s), or an opening parenthesis at j+1, group 2 up to a closing   *)
(* parenthesis at k, and the rest of the string.  Every quantifier is      *)
(* greedy, so the engine returns the match with the largest i, then the    *)
(* largest j, then the largest k.                                          *)
(***************************************************************************)
G1Ends(s) == {i \in 1..Len(s) : \A t \in 1..i : s[t] # " "}

MidEnds(s, i) == {j \in i..Len(s) : \A t \in (i+1)..j : s[t] # "("}

\* the ways to end the match once the run without "(" stopped at j: 0 for the
\* optional part left out, k for the part taken with its ")" at position k
GroupEnds(s, j) ==
    (IF j = Len(s) THEN {0} ELSE {})
    \cup (IF j + 1 <= Len(s) /\ s[j+1] = "("
          THEN {k \in (j+2)..Len(s) : s[k] = ")"}
          ELSE {})

re_search(s) ==
    LET I == {i \in G1Ends(s) : \E j \in MidEnds(s, i) : GroupEnds(s, j) # {}}
    IN  IF I = {} THEN NoMatch
        ELSE LET i == Max(I)
                 j == Max({jj \in MidEnds(s, i) : GroupEnds(s, jj) # {}})
                 k == Max(GroupEnds(s, j))
             IN  [matched |-> TRUE,
                  g1 |-> SubSeq(s, 1, i),
                  has2 |-> k # 0,
                  g2 |-> IF k = 0 THEN <<>> ELSE SubSeq(s, j + 2, k - 1)]

\* convert_status with a fault: the two health annotations exchanged
convert_status_swapped(s) ==
    LET res == re_search(s)
    IN  IF ~res.matched THEN Raised
        ELSE IF res.g1 = <<"Up">>
             THEN IF res.has2 /\ res.g2 = <<"health:", " ", "starting">> THEN "starting"
                  ELSE IF res.has2 /\ res.g2 = <<"healthy">> THEN "unhealthy"
                  ELSE IF res.has2 /\ res.g2 = <<"unhealthy">> THEN "healthy"
                  ELSE IF ~res.has2 THEN "up"
                  ELSE Raised
             ELSE "down"

\* convert_status with a fault: an unknown annotation is taken for "up"
convert_status_lenient(s) ==
    LET res == re_search(s)
    IN  IF ~res.matched THEN Raised
        ELSE IF res.g1 = <<"Up">>
             THEN IF res.has2 /\ res.g2 = <<"health:", " ", "starting">> THEN "starting"
                  ELSE IF res.has2 /\ res.g2 = <<"healthy">> THEN "healthy"
                  ELSE IF res.has2 /\ res.g2 = <<"unhealthy">> THEN "unhealthy"
                  ELSE "up"
             ELSE "down"

convert_status(s) ==
    LET res == re_search(s)
    IN  IF ~res.matched THEN Raised
        ELSE IF res.g1 = <<"Up">>
             THEN IF res.has2 /\ res.g2 = <<"health:", " ", "starting">> THEN "starting"
                  ELSE IF res.has2 /\ res.g2 = <<"healthy">> THEN "healthy"
                  ELSE IF res.has2 /\ res.g2 = <<"unhealthy">> THEN "unhealthy"
                  ELSE IF ~res.has2 THEN "up"
                  ELSE Raised
             ELSE "down"

(***************************************************************************)
(* The containers and their listing.                                       *)
(***************************************************************************)
Services == {"web", "db"}

\* what `docker-compose ps -q name` prints for a service that has a container
\* (the empty string <<>> when it has none)
ContainerId(name) == IF name = "web" THEN <<"a", "b">> ELSE <<"c", "d">>

\* the ids `docker ps` may list: it prints the truncated form of an id, here of
\* web's, of db's and of a container that belongs to no service
ListedIds == {<<"a">>, <<"c">>, <<"e">>}

\* the statuses `docker ps` prints in the model
RawStarting  == <<"Up", " ", "(", "health:", " ", "starting", ")">>
RawHealthy   == <<"Up", " ", "(", "healthy", ")">>
RawUnhealthy == <<"Up", " ", "(", "unhealthy", ")">>
RawUp        == <<"Up", " ", "seconds">>
RawExited    == <<"Exited", " ", "(", "137", ")", " ", "ago">>
RawPaused    == <<"Up", " ", "(", "paused", ")">>

RawSamples == {RawStarting, RawHealthy, RawUnhealthy, RawUp, RawExited, RawPaused}

\* get_all_statuses (line 18): a list of (id, status) pairs, one per container
Injective(l) == \A a, b \in 1..Len(l) : l[a][1] = l[b][1] => a = b

Listings ==
    {l \in UNION {[1..n -> ListedIds \X RawSamples] : n \in 0..MaxList} : Injective(l)}

\* FindAtZero with a fault: either of the two ids may be the shorter one
FindAtZero_either(id, s0) ==
    \/ Len(s0) <= Len(id) /\ SubSeq(id, 1, Len(s0)) = s0
    \/ Len(id) <= Len(s0) /\ SubSeq(s0, 1, Len(id)) = id

\* id.find(s[0]) == 0 (line 27): s0 is found at the start of id
FindAtZero(id, s0) == Len(s0) <= Len(id) /\ SubSeq(id, 1, Len(s0)) = s0

get_statuses_for_ids(ids, status_list) ==
    [id \in ids |->
        LET hits == {n \in 1..Len(status_list) : FindAtZero(id, status_list[n][1])}
        IN  IF hits = {} THEN Removed
            ELSE status_list[CHOOSE n \in hits : \A m \in hits : n <= m][2]]

\* convert_status on every status a lookup can return, evaluated once
converted == [v \in RawSamples \cup {Removed} |-> convert_status(v)]

\* line 56: a dictionary, or the exception of convert_status
get_converted_statuses(ids, status_list) ==
    LET by_id == get_statuses_for_ids(ids, status_list)
        conv  == [id \in ids |-> converted[by_id[id]]]
    IN  [raised |-> \E id \in ids : conv[id] = Raised, map |-> conv]

get_services_ids(ps_q) ==
    [name \in {n \in DOMAIN ps_q : ps_q[n] # <<>>} |-> ps_q[name]]

Values(f) == {f[k] : k \in DOMAIN f}

\* get_services_statuses with a fault: the exception list is not applied
get_services_statuses_all(services_with_ids, exception_list, status_list) ==
    LET statuses_by_id == get_converted_statuses(Values(services_with_ids), status_list)
    IN  [raised |-> statuses_by_id.raised,
         map |-> [k \in DOMAIN services_with_ids |->
                     statuses_by_id.map[services_with_ids[k]]]]

\* get_services_statuses with a fault: the exception list is applied before
\* the statuses are converted
get_services_statuses_filter_first(services_with_ids, exception_list, status_list) ==
    LET kept == [k \in DOMAIN services_with_ids \ exception_list |->
                    services_with_ids[k]]
        statuses_by_id == get_converted_statuses(Values(kept), status_list)
    IN  [raised |-> statuses_by_id.raised,
         map |-> [k \in DOMAIN kept |-> statuses_by_id.map[kept[k]]]]

get_services_statuses(services_with_ids, exception_list, status_list) ==
    LET statuses_by_id == get_converted_statuses(Values(services_with_ids), status_list)
    IN  [raised |-> statuses_by_id.raised,
         map |-> [k \in DOMAIN services_with_ids \ exception_list |->
                     statuses_by_id.map[services_with_ids[k]]]]

up_statuses == {"healthy", "up"}
down_statuses == {"down", "unhealthy", "removed", "Exit"}
\* stabilized_statuses with a fault: the down statuses are left out
stabilized_statuses_up_only == up_statuses

stabilized_statuses == up_statuses \cup down_statuses

(***************************************************************************)
(* One iteration of `while True` (lines 118-141), given the listing that   *)
(* `docker ps` prints during it and the time t that time.time() returns at *)
(* line 137.  step is how the iteration ends: "raise" (the exception of    *)
(* convert_status leaves main), "continue" (line 123), "exit0" (line 130), *)
(* "exit-1" (line 135), "exit1" (line 139) or "sleep" (line 141).          *)
(***************************************************************************)
Failed(st) == {<<k, st[k]>> : k \in {x \in DOMAIN st : st[x] \in down_statuses}}

\* main_iteration with a fault: the stabilization test of lines 121-123 is left out
main_iteration_no_hold(ids, exception_list, w, to, started, status_list, t) ==
    LET got == get_services_statuses(ids, exception_list, status_list)
        st  == got.map
    IN  IF got.raised THEN [step |-> "raise", st |-> <<>>, rep |-> {}]
        ELSE IF \A k \in DOMAIN st : st[k] \in up_statuses
             THEN [step |-> "exit0", st |-> st, rep |-> {}]
        ELSE IF \E k \in DOMAIN st : st[k] \in down_statuses
             THEN [step |-> "exit-1", st |-> st, rep |-> Failed(st)]
        ELSE IF to # NoTimeout /\ t > started + to
             THEN [step |-> "exit1", st |-> st, rep |-> {}]
        ELSE [step |-> "sleep", st |-> st, rep |-> {}]

\* main_iteration with a fault: the timeout test of lines 137-139 is left out
main_iteration_no_timeout(ids, exception_list, w, to, started, status_list, t) ==
    LET got == get_services_statuses(ids, exception_list, status_list)
        st  == got.map
    IN  IF got.raised THEN [step |-> "raise", st |-> <<>>, rep |-> {}]
        ELSE IF w /\ \E k \in DOMAIN st : st[k] \notin stabilized_statuses
             THEN [step |-> "continue", st |-> st, rep |-> {}]
        ELSE IF \A k \in DOMAIN st : st[k] \in up_statuses
             THEN [step |-> "exit0", st |-> st, rep |-> {}]
        ELSE IF \E k \in DOMAIN st : st[k] \in down_statuses
             THEN [step |-> "exit-1", st |-> st, rep |-> Failed(st)]
        ELSE [step |-> "sleep", st |-> st, rep |-> {}]

\* main_iteration with a fault: the timeout test comes before the tests of
\* lines 125 and 131
main_iteration_timeout_first(ids, exception_list, w, to, started, status_list, t) ==
    LET got == get_services_statuses(ids, exception_list, status_list)
        st  == got.map
    IN  IF got.raised THEN [step |-> "raise", st |-> <<>>, rep |-> {}]
        ELSE IF w /\ \E k \in DOMAIN st : st[k] \notin stabilized_statuses
             THEN [step |-> "continue", st |-> st, rep |-> {}]
        ELSE IF to # NoTimeout /\ t > started + to
             THEN [step |-> "exit1", st |-> st, rep |-> {}]
        ELSE IF \A k \in DOMAIN st : st[k] \in up_statuses
             THEN [step |-> "exit0", st |-> st, rep |-> {}]
        ELSE IF \E k \in DOMAIN st : st[k] \in down_statuses
             THEN [step |-> "exit-1", st |-> st, rep |-> Failed(st)]
        ELSE [step |-> "sleep", st |-> st, rep |-> {}]

\* main_iteration with a fault: success as soon as no service is down
main_iteration_eager(ids, exception_list, w, to, started, status_list, t) ==
    LET got == get_services_statuses(ids, exception_list, status_list)
        st  == got.map
    IN  IF got.raised THEN [step |-> "raise", st |-> <<>>, rep |-> {}]
        ELSE IF w /\ \E k \in DOMAIN st : st[k] \notin stabilized_statuses
             THEN [step |-> "continue", st |-> st, rep |-> {}]
        ELSE IF \A k \in DOMAIN st : st[k] \notin down_statuses
             THEN [step |-> "exit0", st |-> st, rep |-> {}]
        ELSE IF \E k \in DOMAIN st : st[k] \in down_statuses
             THEN [step |-> "exit-1", st |-> st, rep |-> Failed(st)]
        ELSE IF to # NoTimeout /\ t > started + to
             THEN [step |-> "exit1", st |-> st, rep |-> {}]
        ELSE [step |-> "sleep", st |-> st, rep |-> {}]

main_iteration(ids, exception_list, w, to, started, status_list, t) ==
    LET got == get_services_statuses(ids, exception_list, status_list)
        st  == got.map
    IN  IF got.raised THEN [step |-> "raise", st |-> <<>>, rep |-> {}]
        ELSE IF w /\ \E k \in DOMAIN st : st[k] \notin stabilized_statuses
             THEN [step |-> "continue", st |-> st, rep |-> {}]
        ELSE IF \A k \in DOMAIN st : st[k] \in up_statuses
             THEN [step |-> "exit0", st |-> st, rep |-> {}]
        ELSE IF \E k \in DOMAIN st : st[k] \in down_statuses
             THEN [step |-> "exit-1", st |-> st, rep |-> Failed(st)]
        ELSE IF to # NoTimeout /\ t > started + to
             THEN [step |-> "exit1", st |-> st, rep |-> {}]
        ELSE [step |-> "sleep", st |-> st, rep |-> {}]

\* the outcome a step of the loop ends the run with
OutcomeOf(step) ==
    CASE step = "exit0"  -> "Success"
      [] step = "exit-1" -> "Failure"
      [] step = "exit1"  -> "TimedOut"
      [] step = "raise"  -> "Aborted"
      [] OTHER           -> "None"

\* exit_argument with a fault: a health failure exits like a timeout
exit_argument_same(step) ==
    CASE step = "exit0"  -> 0
      [] step = "exit-1" -> 1
      [] step = "exit1"  -> 1
      [] step = "raise"  -> 1
      [] OTHER           -> NotExited

\* the argument of exit() at lines 130, 135 and 139; an exception that leaves
\* main ends the interpreter with status 1
exit_argument(step) ==
    CASE step = "exit0"  -> 0
      [] step = "exit-1" -> -1
      [] step = "exit1"  -> 1
      [] step = "raise"  -> 1
      [] OTHER           -> NotExited

\* the exit status the operating system reports: the low 8 bits of the argument
exit_status_of(step) ==
    IF exit_argument(step) = NotExited
    THEN NotExited
    ELSE exit_argument(step) % 256

\* line 119 with a fault: a service once seen down stays down in the map
assign_statuses_sticky(old, new) ==
    [k \in DOMAIN new |->
        IF k \in DOMAIN old /\ old[k] \in down_statuses THEN old[k] ELSE new[k]]

\* the assignment of line 119: the new map replaces the old one
assign_statuses(old, new) == new

(***************************************************************************)
(* The program.                                                            *)
(***************************************************************************)
Timeouts == {NoTimeout} \cup 0..MaxTimeout

ParserIdle == raw = <<>> /\ parsed = "idle"

LookupIdle == lk_ids = {} /\ lk_list = <<>> /\ lk_out = <<>>

\* the process as it enters main: the arguments are any, the compose project
\* has any of its services with or without a container
MainInit ==
    /\ pc = "start"
    /\ wait \in BOOLEAN
    /\ timeout \in Timeouts
    /\ blacklist \in SUBSET Services
    /\ compose \in [Services -> {<<>>} \cup {ContainerId(name) : name \in Services}]
    /\ \A name \in Services : compose[name] \in {<<>>, ContainerId(name)}
    /\ services_ids = <<>>
    /\ start_time = 0
    /\ now = 0
    /\ raw_statuses = <<>>
    /\ statuses = <<>>
    /\ outcome = "None"
    /\ report = {}
    /\ lastStep = "none"
    /\ ticks = 0
    /\ exit_status = NotExited
    /\ prev_statuses = <<>>

Init ==
    /\ MainInit
    /\ track = FALSE
    /\ ParserIdle
    /\ LookupIdle

\* main, lines 105-116: the clock is read and the services are resolved, once
Start ==
    /\ pc = "start"
    /\ pc' = "loop"
    /\ start_time' = now
    /\ services_ids' = get_services_ids(compose)
    /\ UNCHANGED <<wait, timeout, blacklist, compose, now, raw_statuses, statuses,
                   outcome, report, lastStep, ticks, exit_status, track,
                   prev_statuses, parserVars, lookupVars>>

\* main, lines 118-141: one iteration of the loop, its sleep included
Tick ==
    /\ pc = "loop"
    /\ ticks < MaxTicks
    /\ \E status_list \in Listings, d \in CallDurations :
        \E r \in {main_iteration(services_ids, blacklist, wait, timeout,
                                 start_time, status_list, now + d)} :
              /\ raw_statuses' = get_statuses_for_ids(Values(services_ids), status_list)
              /\ statuses' = IF r.step = "raise" THEN statuses
                              ELSE assign_statuses(statuses, r.st)
              /\ exit_status' = exit_status_of(r.step)
              /\ report' = r.rep
              /\ lastStep' = r.step
              /\ outcome' = OutcomeOf(r.step)
              /\ pc' = IF r.step \in {"continue", "sleep"} THEN "loop" ELSE "done"
              /\ now' = IF r.step = "sleep" THEN now + d + SleepInterval ELSE now + d
    /\ ticks' = ticks + 1
    /\ prev_statuses' = IF track THEN statuses ELSE prev_statuses
    /\ UNCHANGED <<wait, timeout, blacklist, compose, services_ids, start_time,
                   track, parserVars, lookupVars>>

Next == Start \/ Tick

Spec == Init /\ [][Next]_vars

(***************************************************************************)
(* The same program with the history of the map recorded: prev_statuses is *)
(* what `statuses` held when the last poll assigned it anew.  The map does *)
(* not depend on the clock (line 119 comes before every use of it), and    *)
(* the runs are those with no --timeout.                                   *)
(***************************************************************************)
InitFrame ==
    /\ MainInit
    /\ timeout = NoTimeout
    /\ track = TRUE
    /\ ParserIdle
    /\ LookupIdle

SpecFrame == InitFrame /\ [][Next]_vars

(***************************************************************************)
(* The status parser on its own: convert_status applied to any string of   *)
(* at most MaxRawLen atoms, and to the strings made of a leading token, a  *)
(* middle part, an optional parenthesized detail and a tail.               *)
(***************************************************************************)
Atoms == {"Up", "Exited", " ", "(", ")", "healthy", "unhealthy", "health:",
          "starting", "paused"}

ShortStrings == UNION {[1..n -> Atoms] : n \in 0..MaxRawLen}

Tokens  == {<<"Up">>, <<"Exited">>, <<"Created">>, <<"Up", "Up">>, <<"up">>,
            <<"healthy">>}
Middles == {<<" ">>, <<" ", "3", " ", "seconds", " ">>, <<" ", " ">>}
Details == {<<"health:", " ", "starting">>, <<"healthy">>, <<"unhealthy">>,
            <<"paused">>, <<>>, <<"137">>, <<"healthy", " ">>,
            <<"health:", "starting">>, <<"Healthy">>}
Tails   == {<<>>, <<" ", "4", " ", "seconds", " ", "ago">>}

\* a status of the form "<token><middle>" or "<token><middle>(<detail>)<tail>"
Shapes ==
    [tok : Tokens, mid : Middles \cup {<<>>}, has : {FALSE}, det : {<<>>}, tail : {<<>>}]
    \cup [tok : Tokens, mid : Middles, has : {TRUE}, det : Details, tail : Tails]

Build(sh) ==
    IF sh.has THEN sh.tok \o sh.mid \o <<"(">> \o sh.det \o <<")">> \o sh.tail
    ELSE sh.tok \o sh.mid

ShapedStrings == {Build(sh) : sh \in Shapes}

InitParse ==
    /\ pc = "parser"
    /\ wait = FALSE
    /\ timeout = NoTimeout
    /\ blacklist = {}
    /\ compose = [name \in Services |-> <<>>]
    /\ services_ids = <<>>
    /\ start_time = 0
    /\ now = 0
    /\ raw_statuses = <<>>
    /\ statuses = <<>>
    /\ outcome = "None"
    /\ report = {}
    /\ lastStep = "none"
    /\ ticks = 0
    /\ exit_status = NotExited
    /\ track = FALSE
    /\ prev_statuses = <<>>
    /\ LookupIdle
    /\ raw \in ShortStrings \cup ShapedStrings
    /\ parsed = "idle"

\* convert_status(raw), lines 36-52
Parse ==
    /\ pc = "parser"
    /\ parsed = "idle"
    /\ parsed' = convert_status(raw)
    /\ UNCHANGED <<mainVars, raw, lookupVars>>

NextParse == Parse

SpecParse == InitParse /\ [][NextParse]_vars

(***************************************************************************)
(* The lookup on its own: get_statuses_for_ids applied to any set of ids   *)
(* and any listing of at most MaxList lines, over ids that are prefixes of *)
(* one another and one that is not; a listing may hold an id twice.        *)
(***************************************************************************)
LookupIds == {<<"a">>, <<"a", "b">>, <<"a", "b", "c">>, <<"d">>}

LookupStatuses == {RawHealthy, RawExited}

LookupListings == UNION {[1..n -> LookupIds \X LookupStatuses] : n \in 0..MaxList}

InitLookup ==
    /\ pc = "lookup"
    /\ wait = FALSE
    /\ timeout = NoTimeout
    /\ blacklist = {}
    /\ compose = [name \in Services |-> <<>>]
    /\ services_ids = <<>>
    /\ start_time = 0
    /\ now = 0
    /\ raw_statuses = <<>>
    /\ statuses = <<>>
    /\ outcome = "None"
    /\ report = {}
    /\ lastStep = "none"
    /\ ticks = 0
    /\ exit_status = NotExited
    /\ track = FALSE
    /\ prev_statuses = <<>>
    /\ ParserIdle
    /\ lk_ids \in SUBSET LookupIds \ {{}}
    /\ lk_list \in LookupListings
    /\ lk_out = <<>>

\* get_statuses_for_ids(lk_ids) with lk_list as the listing, lines 21-33
Lookup ==
    /\ pc = "lookup"
    /\ lk_out = <<>>
    /\ lk_out' = get_statuses_for_ids(lk_ids, lk_list)
    /\ UNCHANGED <<mainVars, parserVars, lk_ids, lk_list>>

NextLookup == Lookup

SpecLookup == InitLookup /\ [][NextLookup]_vars

(***************************************************************************)
(* The vocabulary of the claims: the health state of a raw status as the   *)
(* specification's reference table gives it, and the sets of section 3.    *)
(***************************************************************************)
HealthState(r) ==
    CASE r = RawStarting  -> "starting"
      [] r = RawHealthy   -> "healthy"
      [] r = RawUnhealthy -> "unhealthy"
      [] r = RawUp        -> "up"
      [] r = RawExited    -> "down"
      [] r = Removed      -> "removed"
      [] OTHER            -> "malformed"

UpSet == {"healthy", "up"}
DownSet == {"down", "unhealthy", "removed"}
SixStates == {"starting"} \cup UpSet \cup DownSet

\* a poll has been made; the state holds what its iteration did
Polled == pc \in {"loop", "done"} /\ ticks > 0

Resolved == DOMAIN services_ids
Evaluated == Resolved \ blacklist

\* the status the last poll found for the container of a resolved service
RawOf(name) == raw_statuses[services_ids[name]]
StateOf(name) == HealthState(RawOf(name))

\* the time the last iteration read at line 137 (its sleep comes after)
TickTime == IF lastStep = "sleep" THEN now - SleepInterval ELSE now

\* every status the last poll looked up is one convert_status accepts
AllParse == \A name \in Resolved : StateOf(name) # "malformed"

(***************************************************************************)
(* C1.  With wait=true and a timeout configured, a poll at which a service *)
(* that is not blacklisted is Starting, made when more time than the       *)
(* timeout has elapsed, ends the run with TimedOut.                        *)
(* The iteration `continue`s at line 123 and never reaches line 137.       *)
(***************************************************************************)
C1_TimedOutWhileStarting ==
    (/\ Polled
     /\ wait
     /\ timeout # NoTimeout
     /\ AllParse
     /\ \E name \in Evaluated : StateOf(name) = "starting"
     /\ TickTime > start_time + timeout)
    => outcome = "TimedOut"

(***************************************************************************)
(* C2.  A poll ends the run with Success if and only if every resolved     *)
(* service that is not blacklisted is in UpSet at that poll.               *)
(***************************************************************************)
C2_Original ==
    Polled => (outcome = "Success" <=> \A name \in Evaluated : StateOf(name) \in UpSet)

\* C2 as amended: the same, at a poll where the status of no blacklisted
\* resolved service is malformed (convert_status is run on the blacklisted
\* services too, and its exception ends the run); in particular the first
\* poll ends the run with Success when every service is healthy.
C2_SuccessIffAllUp ==
    /\ (Polled /\ \A name \in Resolved \cap blacklist : StateOf(name) # "malformed")
        => (outcome = "Success" <=> \A name \in Evaluated : StateOf(name) \in UpSet)
    /\ (Polled /\ ticks = 1 /\ \A name \in Resolved : StateOf(name) = "healthy")
        => (outcome = "Success" /\ pc = "done")

C2_Witness ==
    /\ Polled /\ ticks = 1 /\ wait /\ timeout # NoTimeout
    /\ Evaluated = Services
    /\ StateOf("web") = "healthy" /\ StateOf("db") = "up"
    /\ outcome = "Success"

(***************************************************************************)
(* C3.  With wait=false, a poll at which some service that is not          *)
(* blacklisted is in DownSet ends the run with Failure, and the report     *)
(* lists exactly the services in a down state, each with its state label.  *)
(* Stated for the polls whose statuses all parse; the label of a removed   *)
(* service is "down" in the report (see C6).                               *)
(***************************************************************************)
C3_FailureReport ==
    (/\ Polled
     /\ ~wait
     /\ AllParse
     /\ \E name \in Evaluated : StateOf(name) \in DownSet)
    => (/\ outcome = "Failure"
        /\ pc = "done"
        /\ report = {<<name, StateOf(name)>> :
                        name \in {n \in Evaluated : StateOf(n) \in DownSet}})

(***************************************************************************)
(* C4.  With wait=true, a poll at which a service that is not blacklisted  *)
(* is Starting ends the run neither with Success nor with Failure, also    *)
(* when another service is down.                                           *)
(***************************************************************************)
C4_StartingHolds ==
    (Polled /\ wait /\ \E name \in Evaluated : StateOf(name) = "starting")
    => outcome \notin {"Success", "Failure"}

C4_Witness ==
    /\ Polled /\ wait
    /\ Evaluated = Services
    /\ StateOf("web") = "starting" /\ StateOf("db") = "down"
    /\ lastStep = "continue" /\ outcome = "None" /\ pc = "loop"

(***************************************************************************)
(* C5.  A declared service without a container that is not blacklisted is  *)
(* treated as removed: the run never ends with Success while there is one, *)
(* and a poll that evaluates success and failure ends with Failure and     *)
(* reports it.                                                             *)
(* get_services_ids leaves such a service out of the table (line 74).      *)
(***************************************************************************)
C5_UnresolvedIsDown ==
    \A name \in Services \ blacklist :
        (Polled /\ compose[name] = <<>>)
        => (/\ outcome # "Success"
            /\ (AllParse /\ lastStep \notin {"continue", "raise"}
                  => outcome = "Failure" /\ \E l \in DownSet : <<name, l>> \in report))

(***************************************************************************)
(* C6.  A resolved service whose id matches no entry of the listing has    *)
(* the label "removed" in the aggregated map and in the failure report.    *)
(* convert_status is applied to the string "removed" and returns "down".   *)
(***************************************************************************)
C6_RemovedLabel ==
    \A name \in Evaluated :
        (Polled /\ lastStep # "raise" /\ RawOf(name) = Removed)
        => (/\ statuses[name] = "removed"
            /\ (outcome = "Failure" => <<name, "removed">> \in report))

(***************************************************************************)
(* C7.  The keys of the aggregated map are exactly the resolved services   *)
(* that are not blacklisted, whatever the states.                          *)
(***************************************************************************)
C7_MapKeys ==
    (Polled /\ lastStep # "raise") => DOMAIN statuses = Resolved \ blacklist

C7_Witness ==
    /\ Polled /\ lastStep # "raise"
    /\ Resolved = Services /\ blacklist = {"db"}
    /\ StateOf("db") = "unhealthy"
    /\ DOMAIN statuses = {"web"}

(***************************************************************************)
(* C8.  The outcome does not depend on the states of the blacklisted       *)
(* services: a run whose listing differs from this one's only in the       *)
(* states (one of the six) of blacklisted services ends its iteration the  *)
(* same way, with the same map and report; and a blacklisted service that  *)
(* is down while every other service is healthy gives Success.             *)
(***************************************************************************)
\* the truncated id `docker ps` lists for a container id
Short(id) == SubSeq(id, 1, 1)

SeqOf(S) == CHOOSE l \in [1..Cardinality(S) -> S] : {l[n] : n \in DOMAIN l} = S

\* a listing that gives each container the status v gives it
ListingOf(v) == SeqOf({<<Short(id), v[id]>> : id \in {x \in DOMAIN v : v[x] # Removed}})

\* what the lookups of another run may return: as in this run for the services
\* that are evaluated, any of the six states for the blacklisted ones
Variants ==
    {v \in [DOMAIN raw_statuses -> RawSamples \cup {Removed}] :
        /\ \A name \in Evaluated : v[services_ids[name]] = RawOf(name)
        /\ \A name \in Resolved \cap blacklist :
              HealthState(v[services_ids[name]]) \in SixStates}

C8_BlacklistIrrelevant ==
    /\ (Polled /\ \A name \in Resolved \cap blacklist : StateOf(name) \in SixStates)
        => \A v \in Variants :
              LET r == main_iteration(services_ids, blacklist, wait, timeout,
                                      start_time, ListingOf(v), TickTime)
              IN  /\ r.step = lastStep
                  /\ OutcomeOf(r.step) = outcome
                  /\ r.rep = report
                  /\ (r.step # "raise" => r.st = statuses)
    /\ (/\ Polled
        /\ \E name \in Resolved \cap blacklist : StateOf(name) \in DownSet
        /\ \A name \in Resolved \cap blacklist : StateOf(name) \in SixStates
        /\ \A name \in Evaluated : StateOf(name) = "healthy")
        => outcome = "Success"

C8_Witness ==
    /\ Polled
    /\ Resolved = Services /\ blacklist = {"db"}
    /\ StateOf("db") = "down" /\ StateOf("web") = "healthy"
    /\ outcome = "Success"

(***************************************************************************)
(* C9.  convert_status agrees with the reference table: leading token "Up" *)
(* with the detail "health: starting" gives starting, "healthy" healthy,   *)
(* "unhealthy" unhealthy, no detail up; any other leading token gives down *)
(* whatever the detail.                                                    *)
(***************************************************************************)
Reference(sh) ==
    IF sh.tok # <<"Up">> THEN "down"
    ELSE IF ~sh.has THEN "up"
    ELSE IF sh.det = <<"health:", " ", "starting">> THEN "starting"
    ELSE IF sh.det = <<"healthy">> THEN "healthy"
    ELSE IF sh.det = <<"unhealthy">> THEN "unhealthy"
    ELSE "MalformedStatus"

C9_ParseTable ==
    \A sh \in Shapes :
        (parsed # "idle" /\ raw = Build(sh) /\ Reference(sh) # "MalformedStatus")
        => parsed = Reference(sh)

C9_Witness ==
    /\ raw = <<"Exited", " ", "(", "137", ")", " ", "4", " ", "seconds", " ", "ago">>
    /\ parsed = "down"

(***************************************************************************)
(* C10.  "Up" with a detail other than the three known ones makes          *)
(* convert_status raise, and the exception ends the run at that poll: none *)
(* of Success, Failure, TimedOut, and no further poll.                     *)
(***************************************************************************)
MalformedShapes == {sh \in Shapes : Reference(sh) = "MalformedStatus"}

C10_MalformedIsFatal ==
    /\ \A sh \in MalformedShapes : convert_status(Build(sh)) = Raised
    /\ (Polled /\ \E name \in Resolved : StateOf(name) = "malformed")
        => (/\ lastStep = "raise"
            /\ outcome = "Aborted"
            /\ pc = "done"
            /\ ~ENABLED Tick)

C10_Witness ==
    /\ Polled /\ ticks = 1
    /\ Evaluated = Services
    /\ RawOf("web") = RawPaused /\ StateOf("db") = "healthy"
    /\ outcome = "Aborted" /\ pc = "done"

(***************************************************************************)
(* C11.  The three terminal outcomes have distinguishable exit statuses,   *)
(* taken modulo 256 as the operating system reports them: Success exits    *)
(* with 0, TimedOut with 1, and Failure with a status that is neither 0    *)
(* nor 1 (exit(-1) is reported as 255).                                    *)
(***************************************************************************)
C11_ExitCodes ==
    /\ outcome = "Success"  => exit_status = 0
    /\ outcome = "TimedOut" => exit_status = 1
    /\ outcome = "Failure"  => exit_status \in 2..255
    /\ outcome = "None"     => exit_status = NotExited

C11_Witness ==
    /\ Polled /\ pc = "done"
    /\ outcome = "Failure" /\ lastStep = "exit-1"
    /\ exit_status = 255

(***************************************************************************)
(* C12.  With wait=false, a poll at which some service that is not         *)
(* blacklisted is Starting and none is in DownSet ends the run neither     *)
(* with Success nor with Failure: the iteration goes on to the timeout     *)
(* test and, with no timeout configured, sleeps and polls again.           *)
(* C12_Original is the statement as it stands, with every evaluated        *)
(* service in one of the six health states; it leaves out that the status  *)
(* of a blacklisted service is parsed as well.  C12_FailFastContinues      *)
(* holds at a poll where every resolved service's status parses.           *)
(***************************************************************************)
C12_Original ==
    (/\ Polled
     /\ ~wait
     /\ \A name \in Evaluated : StateOf(name) \in SixStates
     /\ \E name \in Evaluated : StateOf(name) = "starting"
     /\ \A name \in Evaluated : StateOf(name) \notin DownSet)
    => (/\ outcome \notin {"Success", "Failure"}
        /\ lastStep \in {"exit1", "sleep"}
        /\ timeout = NoTimeout => lastStep = "sleep" /\ pc = "loop")

C12_FailFastContinues ==
    (/\ Polled
     /\ ~wait
     /\ AllParse
     /\ \E name \in Evaluated : StateOf(name) = "starting"
     /\ \A name \in Evaluated : StateOf(name) \notin DownSet)
    => (/\ outcome \notin {"Success", "Failure"}
        /\ lastStep \in {"exit1", "sleep"}
        /\ lastStep = "exit1" <=> (timeout # NoTimeout /\ TickTime > start_time + timeout)
        /\ timeout = NoTimeout
             => lastStep = "sleep" /\ pc = "loop" /\ outcome = "None")

C12_Witness ==
    /\ Polled /\ ticks = MaxTicks
    /\ ~wait /\ timeout = NoTimeout
    /\ Evaluated = Services
    /\ StateOf("web") = "starting" /\ StateOf("db") = "healthy"
    /\ lastStep = "sleep" /\ pc = "loop" /\ outcome = "None"

(***************************************************************************)
(* C13.  Between two consecutive polls of the loop one sleep of one        *)
(* interval takes place, in both wait modes: whenever an iteration has     *)
(* polled and control is back at the head of the loop, the iteration has   *)
(* slept.                                                                  *)
(* With wait=true and a service that has not stabilized the iteration      *)
(* `continue`s at line 123 and polls again without reaching line 141.      *)
(***************************************************************************)
C13_SleepBetweenPolls ==
    (Polled /\ pc = "loop") => lastStep = "sleep"

(***************************************************************************)
(* C14.  With wait=true, a poll at which no service that is not            *)
(* blacklisted is Starting ends the run: with Success when every such      *)
(* service is in UpSet, with Failure otherwise; never with TimedOut and    *)
(* never with another turn of the loop.                                    *)
(* C14_Original is the statement as it stands, with every evaluated        *)
(* service in one of the six health states; it leaves out that the status  *)
(* of a blacklisted service is parsed as well.  C14_StabilizedIsTerminal   *)
(* holds at a poll where every resolved service's status parses.           *)
(***************************************************************************)
C14_Original ==
    (/\ Polled
     /\ wait
     /\ \A name \in Evaluated : StateOf(name) \in SixStates \ {"starting"})
    => (/\ pc = "done"
        /\ outcome = IF \A name \in Evaluated : StateOf(name) \in UpSet
                     THEN "Success" ELSE "Failure")

C14_StabilizedIsTerminal ==
    (/\ Polled
     /\ wait
     /\ AllParse
     /\ \A name \in Evaluated : StateOf(name) # "starting")
    => (/\ pc = "done"
        /\ lastStep \notin {"continue", "sleep", "exit1"}
        /\ outcome = IF \A name \in Evaluated : StateOf(name) \in UpSet
                     THEN "Success" ELSE "Failure")

C14_Witness ==
    /\ Polled /\ wait /\ timeout = 0 /\ TickTime > start_time + timeout
    /\ Evaluated = Services
    /\ StateOf("web") = "healthy" /\ StateOf("db") = "unhealthy"
    /\ pc = "done" /\ outcome = "Failure"

(***************************************************************************)
(* C15.  With wait=false and a timeout configured the loop terminates      *)
(* whatever the listings are, time advancing with each sleep: every        *)
(* iteration that goes back to the head of the loop has slept, so that     *)
(* after k polls at least k-1 intervals have elapsed, and the first poll   *)
(* made after more time than the timeout has elapsed ends the run.         *)
(* C15_Original names the endings of the statement as it stands: Success,  *)
(* Failure or TimedOut.  A listing with a malformed status ends the run    *)
(* with the exception of convert_status; C15_Terminates has it as the      *)
(* fourth ending.                                                          *)
(***************************************************************************)
C15_Original ==
    (~wait /\ timeout # NoTimeout /\ pc = "done")
    => outcome \in {"Success", "Failure", "TimedOut"}

C15_Terminates ==
    (~wait /\ timeout # NoTimeout /\ Polled)
    => (/\ pc = "done" => outcome \in {"Success", "Failure", "TimedOut", "Aborted"}
        /\ pc = "loop" => (/\ lastStep = "sleep"
                           /\ now >= start_time + ticks * SleepInterval
                           /\ TickTime <= start_time + timeout
                           /\ ticks <= timeout + 1)
        /\ TickTime > start_time + timeout => pc = "done"
        /\ (outcome = "TimedOut") <=>
              (/\ AllParse
               /\ TickTime > start_time + timeout
               /\ \E name \in Evaluated : StateOf(name) \notin UpSet
               /\ \A name \in Evaluated : StateOf(name) \notin DownSet))

C15_Witness ==
    /\ Polled /\ ticks = 2
    /\ ~wait /\ timeout = 0
    /\ Evaluated = Services
    /\ StateOf("web") = "starting" /\ StateOf("db") = "up"
    /\ pc = "done" /\ outcome = "TimedOut"
    /\ TickTime = start_time + 1

(***************************************************************************)
(* C16.  Success and Failure take precedence over the timeout.  The run    *)
(* ends with TimedOut only at a poll that a timeout is configured for,     *)
(* made when strictly more time than the timeout has elapsed, and whose    *)
(* map is neither all up nor has a service down.  A poll that computes its *)
(* map and finds every service up ends with Success, and one that is not   *)
(* held by wait and finds a service down ends with Failure, however much   *)
(* time has elapsed.  With no timeout configured the run never ends with   *)
(* TimedOut.                                                               *)
(***************************************************************************)
C16_Precedence ==
    /\ outcome = "TimedOut"
         => (/\ timeout # NoTimeout
             /\ TickTime > start_time + timeout
             /\ \E name \in Evaluated : StateOf(name) \notin UpSet
             /\ \A name \in Evaluated : StateOf(name) \notin DownSet)
    /\ (Polled /\ lastStep # "raise"
          /\ \A name \in Evaluated : StateOf(name) \in UpSet)
         => outcome = "Success"
    /\ (Polled /\ lastStep \notin {"raise", "continue"}
          /\ \E name \in Evaluated : StateOf(name) \in DownSet)
         => outcome = "Failure"
    /\ timeout = NoTimeout => outcome # "TimedOut"

C16_Witness ==
    /\ Polled /\ ticks = 2
    /\ timeout = 0 /\ TickTime > start_time + timeout
    /\ Evaluated = Services
    /\ StateOf("web") = "healthy" /\ StateOf("db") = "up"
    /\ pc = "done" /\ outcome = "Success"

(***************************************************************************)
(* C17.  The table of container ids is resolved once, before the first     *)
(* poll, and no poll changes it; the map of a poll is computed from that   *)
(* table, the blacklist and the listing of that poll only, whatever the    *)
(* map of the poll before was: its keys are the resolved services that are *)
(* not blacklisted, and each is seen as starting, up or down as its entry  *)
(* in the current listing says.  So a resolved service whose container is  *)
(* missing from the listing is seen as down at that poll, and one seen as  *)
(* down at a poll held by wait=true is seen as up at the next poll when    *)
(* its entry has become healthy.                                           *)
(***************************************************************************)
C17_RebuiltEachTick ==
    /\ pc # "start" => services_ids = get_services_ids(compose)
    /\ (Polled /\ lastStep # "raise")
         => (/\ DOMAIN statuses = Evaluated
             /\ \A name \in Evaluated :
                   /\ StateOf(name) = "starting" <=> statuses[name] = "starting"
                   /\ StateOf(name) \in UpSet <=> statuses[name] \in UpSet
                   /\ StateOf(name) \in DownSet <=> statuses[name] \in DownSet
                   /\ RawOf(name) = Removed => statuses[name] \in DownSet)

C17_Witness ==
    /\ Polled /\ ticks = 2 /\ wait
    /\ Evaluated = Services
    /\ prev_statuses = [web |-> "down", db |-> "starting"]
    /\ StateOf("web") = "healthy" /\ StateOf("db") = "healthy"
    /\ statuses = [web |-> "healthy", db |-> "healthy"]
    /\ outcome = "Success"

(***************************************************************************)
(* C18.  For each id asked for, the status returned is that of the first   *)
(* line of the listing, in its order, whose id matches the id asked for,   *)
(* and "removed" only when no line matches.                                *)
(* C18_Original is the statement as it stands: a match is a prefix either  *)
(* way.  Line 27 tests that the listed id is found at the start of the id  *)
(* asked for: C18_FirstPrefixMatch has a listed id match when it is a      *)
(* prefix of the id asked for, and not when it is longer.                  *)
(***************************************************************************)
IsPrefix(p, q) == Len(p) <= Len(q) /\ \A i \in 1..Len(p) : p[i] = q[i]

Looked == pc = "lookup" /\ lk_out # <<>>

MatchesEitherWay(n, id) ==
    IsPrefix(lk_list[n][1], id) \/ IsPrefix(id, lk_list[n][1])

C18_Original ==
    Looked =>
        \A id \in lk_ids :
            LET M == {n \in 1..Len(lk_list) : MatchesEitherWay(n, id)}
            IN  IF M = {} THEN lk_out[id] = Removed
                ELSE \E n \in M : (\A m \in M : n <= m) /\ lk_out[id] = lk_list[n][2]

C18_FirstPrefixMatch ==
    Looked =>
        /\ DOMAIN lk_out = lk_ids
        /\ \A id \in lk_ids :
            LET M == {n \in 1..Len(lk_list) : IsPrefix(lk_list[n][1], id)}
            IN  IF M = {} THEN lk_out[id] = Removed
                ELSE \E n \in M : (\A m \in M : n <= m) /\ lk_out[id] = lk_list[n][2]

C18_Witness ==
    /\ Looked
    /\ lk_ids = {<<"a">>, <<"a", "b">>}
    /\ lk_list = << <<<<"a", "b", "c">>, RawHealthy>>, <<<<"a", "b">>, RawExited>> >>
    /\ lk_out[<<"a", "b">>] = RawExited
    /\ lk_out[<<"a">>] = Removed

(***************************************************************************)
(* C19.  When no service is evaluated (every resolved service is           *)
(* blacklisted, or no declared service has a container) the first poll     *)
(* ends the run with Success, in both wait modes and whatever the timeout. *)
(* C19_Original is the statement as it stands; it leaves out that the      *)
(* status of a blacklisted service is parsed as well.                      *)
(* C19_EmptyIsSuccess holds at a poll where every resolved service's       *)
(* status parses.                                                          *)
(***************************************************************************)
C19_Original ==
    (Polled /\ Evaluated = {})
    => (ticks = 1 /\ pc = "done" /\ outcome = "Success")

C19_EmptyIsSuccess ==
    (Polled /\ Evaluated = {} /\ AllParse)
    => (/\ ticks = 1
        /\ pc = "done"
        /\ outcome = "Success"
        /\ statuses = <<>>
        /\ exit_status = 0)

C19_Witness ==
    /\ Polled /\ ticks = 1
    /\ wait /\ timeout = 0 /\ TickTime > start_time + timeout
    /\ Resolved = Services /\ blacklist = Services
    /\ StateOf("web") = "down" /\ StateOf("db") = "starting"
    /\ pc = "done" /\ outcome = "Success"

(***************************************************************************)
(* C20.  The statuses of the containers of all resolved services are       *)
(* parsed before the blacklist is applied: a poll at which a blacklisted   *)
(* resolved service has a malformed status ends the run with the exception *)
(* of convert_status, as one of a service that is not blacklisted does,    *)
(* also when every evaluated service is healthy.                           *)
(***************************************************************************)
C20_BlacklistedMalformedIsFatal ==
    \A name \in Resolved \cap blacklist :
        (Polled /\ StateOf(name) = "malformed")
        => (/\ outcome = "Aborted"
            /\ lastStep = "raise"
            /\ pc = "done"
            /\ report = {}
            /\ exit_status = 1)

C20_Witness ==
    /\ Polled /\ ticks = 1
    /\ Resolved = Services /\ blacklist = {"db"}
    /\ RawOf("db") = RawPaused /\ StateOf("web") = "healthy"
    /\ outcome = "Aborted" /\ pc = "done"

====
